---- MODULE Spec2Model ----
(***************************************************************************)
(* ckb-whale-bot (src/whale-bot.js): the poll driver, the block scanner,   *)
(* the self-transfer classifier, the price cache and the progress pointer, *)
(* as a state machine.  Every await of the program is a step boundary; the *)
(* code between two awaits is one atomic step (Node runs it to completion).*)
(***************************************************************************)
EXTENDS Integers, Sequences, FiniteSets, Bags, TLC

\* ------------------------------------------------------------------------
\* Bounds of the model (not program constants)
\* ------------------------------------------------------------------------
\* number of poll() invocations of one process run (the startup call and the timer's)
MaxPolls == 2
\* number of clock steps the wall clock advances in one run
MaxClockSteps == 1
\* the far tip of the catch-up runs is FarAhead heights beyond the first batch
FarAhead == 2
\* longest input list and output list the classifier is applied to on its own
MaxIO == 2
\* most poll() invocations in flight at once in the runs left running
MaxInFlight == 2
\* largest numerator of the rates the threshold conversion is applied to on its own
MaxRateNum == 5

\* ------------------------------------------------------------------------
\* JavaScript values
\* ------------------------------------------------------------------------
\* null (the pointer before the first run) and NaN (parseInt of a non-number);
\* heights are the naturals
Null == -1
NaN == -2

IsNum(x) == x >= 0

\* a <= b in JavaScript: false when either side is NaN
JsLe(a, b) == IsNum(a) /\ IsNum(b) /\ a <= b

\* a + k for a number or NaN
JsAdd(a, k) == IF a = NaN THEN NaN ELSE a + k

\* Math.min(a, b): NaN when either argument is NaN
JsMin(a, b) == IF a = NaN \/ b = NaN THEN NaN ELSE IF a <= b THEN a ELSE b

Min(S) == CHOOSE x \in S : \A y \in S : x <= y

\* parseInt(s, 16) of "0x" followed by the hex digits ds; NaN when there is no digit
RECURSIVE HexValue(_)
HexValue(ds) ==
    IF ds = <<>> THEN 0 ELSE 16 * HexValue(SubSeq(ds, 1, Len(ds) - 1)) + ds[Len(ds)]

ParseInt16(ds) == IF ds = <<>> THEN NaN ELSE HexValue(ds)

\* n.toString(16), as the sequence of its hex digits
RECURSIVE ToString16(_)
ToString16(n) ==
    IF n < 16 THEN <<n>> ELSE Append(ToString16(n \div 16), n % 16)

\* ------------------------------------------------------------------------
\* Program constants
\* ------------------------------------------------------------------------
SHANNON_PER_CKB == 100000000
WHALE_USD_THRESHOLD == 200000
FALLBACK_CKB == 10000000
PRICE_TTL_MS == 5 * 60 * 1000
MAX_BATCH == 50

\* ------------------------------------------------------------------------
\* Amounts.  A BigInt amount of shannons is the pair <<ckb, sh>> standing for
\* ckb * SHANNON_PER_CKB + sh with 0 <= sh < SHANNON_PER_CKB.
\* ------------------------------------------------------------------------
BigAdd(a, b) ==
    LET lo == a[2] + b[2]
    IN  <<a[1] + b[1] + lo \div SHANNON_PER_CKB, lo % SHANNON_PER_CKB>>

BigLt(a, b) == a[1] < b[1] \/ (a[1] = b[1] /\ a[2] < b[2])

RECURSIVE SumCapacity(_)
SumCapacity(outs) ==
    IF outs = <<>> THEN <<0, 0>>
    ELSE BigAdd(SumCapacity(SubSeq(outs, 1, Len(outs) - 1)), outs[Len(outs)].capacity)

\* total of a transaction: outputs.reduce((a, b) => a + b, 0n)
Total(tx) == SumCapacity(tx.outputs)

\* ------------------------------------------------------------------------
\* Price and threshold.  A rate is the rational <<num, den>>, den > 0; the
\* null rate (no price yet) is NullPrice.
\* ------------------------------------------------------------------------
NullPrice == <<0, 0>>

\* !priceUsd || priceUsd <= 0
PriceUnusable(p) == p = NullPrice \/ p[1] <= 0

\* Math.ceil(a / b) for naturals a, b > 0
CeilDiv(a, b) == (a + b - 1) \div b

\* a slip: the fiat target is multiplied by the rate
whaleThresholdShannonsTimes(priceUsd) ==
    IF PriceUnusable(priceUsd)
    THEN <<FALLBACK_CKB, 0>>
    ELSE <<CeilDiv(WHALE_USD_THRESHOLD * priceUsd[1], priceUsd[2]), 0>>

\* lines 73-79
whaleThresholdShannons(priceUsd) ==
    IF PriceUnusable(priceUsd)
    THEN <<FALLBACK_CKB, 0>>
    ELSE <<CeilDiv(WHALE_USD_THRESHOLD * priceUsd[2], priceUsd[1]), 0>>

\* ------------------------------------------------------------------------
\* The chain the node serves.  A transaction is its inputs (each the lock of
\* the output it spends, as get_transaction would resolve it) and its
\* outputs (capacity, lock).  Index 0 of a block is the cellbase.
\* ------------------------------------------------------------------------
Out(ckb, sh, lock) == [capacity |-> <<ckb, sh>>, lock |-> lock]

Cellbase == [inputs |-> <<>>, outputs |-> <<Out(25000000, 0, "M")>>]

\* 17.5M CKB from A to B with change to A (the example of the README)
TxExternal ==
    [inputs |-> <<"A">>,
     outputs |-> <<Out(15000000, 0, "B"), Out(2500000, 0, "A")>>]

\* exactly ceil(200000 / 0.03) CKB
TxAtRate3 == [inputs |-> <<"A">>, outputs |-> <<Out(6666667, 0, "B")>>]

\* exactly 10M CKB, every output back to a lock of the inputs
TxConsolidate ==
    [inputs |-> <<"A", "B">>,
     outputs |-> <<Out(9999999, 99999999, "A"), Out(0, 1, "B")>>]

\* one shannon short of ceil(200000 / 0.03) CKB
TxSmall == [inputs |-> <<"B">>, outputs |-> <<Out(6666666, 99999999, "A")>>]

Block(h) ==
    IF h = 2
    THEN [transactions |-> <<Cellbase, TxConsolidate, TxSmall, TxAtRate3>>]
    ELSE [transactions |-> <<Cellbase>>]

\* ------------------------------------------------------------------------
\* Self-transfer classifier.  res[j] is the outcome of get_transaction for
\* input j: "err" (the call rejects), "none" (no result, or no such output)
\* or "ok" (the previous output, carrying the lock inputs[j]).
\* ------------------------------------------------------------------------
LookupOutcomes == {"ok", "none", "err"}

\* lines 231-238: the locks of the inputs whose lookup resolved
InputLocks(tx, res) ==
    {tx.inputs[j] : j \in {k \in 1..Len(tx.inputs) : res[k] = "ok"}}

\* a slip: some output, instead of every output, goes back to an input lock
isSelfTransferSome(tx, res) ==
    IF \E j \in 1..Len(tx.inputs) : res[j] = "err"
    THEN FALSE
    ELSE IF InputLocks(tx, res) = {}
    THEN FALSE
    ELSE \E k \in 1..Len(tx.outputs) : tx.outputs[k].lock \in InputLocks(tx, res)

\* lines 224-248
isSelfTransfer(tx, res) ==
    IF \E j \in 1..Len(tx.inputs) : res[j] = "err"
    THEN FALSE
    ELSE IF InputLocks(tx, res) = {}
    THEN FALSE
    ELSE \A k \in 1..Len(tx.outputs) : tx.outputs[k].lock \in InputLocks(tx, res)

\* ------------------------------------------------------------------------
\* State
\* ------------------------------------------------------------------------
VARIABLES
    lastBlock,       \* the in-memory pointer: Null, NaN or a height
    stateFile,       \* what the state file holds: Null (no file), NaN or a height
    ckbPriceUsd,     \* the cached rate, NullPrice until a refresh succeeds
    priceFetchedAt,  \* the time of the cached rate
    clock,           \* Date.now() when it was last read
    polls,           \* poll() invocations so far
    cycles,          \* the poll() invocations in flight, a bag of activation records
    sent,            \* history: the set of <<height, index>> delivered to the channel
    lastAlert,       \* history: the <<height, index>> delivered by the step just taken
    completed,       \* history: the heights whose processBlock call returned
    loaded,          \* history: the pointer loadLastBlock returned at startup
    initTip,         \* history: the tip the first-run branch stored, Null before
    lastScan,        \* history: the processBlock call that returned in the step just taken
    undelivered,     \* history: the set of <<height, index>> whose send failed,
                     \* Unrecorded in the runs that keep no such record
    faults,          \* what the environment can fail at now: "rpc" calls, "disk" writes
    arg,             \* the input of a pure function under check
    ret              \* its result

vars ==
    <<lastBlock, stateFile, ckbPriceUsd, priceFetchedAt, clock, polls, cycles,
      sent, lastAlert, completed, loaded, initTip, lastScan, undelivered, faults,
      arg, ret>>

pureVars == <<arg, ret>>

NoCall == [op |-> "none"]

\* lines 86-96
loadLastBlock(saved) == IF IsNum(saved) /\ saved > 0 THEN saved ELSE Null

\* lines 98-100: the file holds String(n)
saveLastBlock(n) == n

\* the file once saveLastBlock(n) has run: writeFileSync raises, and leaves the
\* file as it was, when the disk cannot be written
Saved(n, file, failing) == IF "disk" \in failing THEN file ELSE saveLastBlock(n)

StartTime == PRICE_TTL_MS

\* the wall clock moves in steps of one TTL
ClockStep == PRICE_TTL_MS

NoAlert == <<0, 0>>

Unrecorded == {NoAlert}

NoScan == [h |-> Null, block |-> "none", priceUsd |-> NullPrice,
           alerted |-> {}, selfSeen |-> {}]

\* the activation record of poll() right after it is called: awaiting the tip
NewCycle ==
    [pc |-> "tip", first |-> Null, tip |-> Null, toProcess |-> Null, n |-> Null,
     i |-> 0, priceUsd |-> NullPrice, now |-> 0, blk |-> "ok",
     alerted |-> {}, selfSeen |-> {}]

InFlight == BagToSet(cycles)

Put(c, d) == (cycles (-) SetToBag({c})) (+) SetToBag({d})

Drop(c) == cycles (-) SetToBag({c})

\* the state files a run may start from
StartFiles == {Null, 1}

InitProgram ==
    /\ stateFile \in StartFiles
    /\ lastBlock = loadLastBlock(stateFile)
    /\ loaded = loadLastBlock(stateFile)
    /\ ckbPriceUsd = NullPrice
    /\ priceFetchedAt = 0
    /\ clock = StartTime
    /\ polls = 1
    /\ cycles = SetToBag({NewCycle})
    /\ sent = {}
    /\ lastAlert = NoAlert
    /\ completed = {}
    /\ initTip = Null
    /\ lastScan = NoScan
    /\ faults = {"rpc"}

InitMain == InitProgram /\ undelivered = Unrecorded

Init == InitMain /\ arg = NoCall /\ ret = NoCall

\* ------------------------------------------------------------------------
\* processBlock, between awaits
\* ------------------------------------------------------------------------
\* a slip: a total equal to the threshold is skipped too
BelowOrAtThreshold(total, threshold) == ~BigLt(threshold, total)

\* line 277: the transaction is skipped
BelowThreshold(total, threshold) == BigLt(total, threshold)

\* a slip: the pointer is persisted for the next height before that height is scanned
ProcessBlockReturnsEager(o, c, kind) ==
    /\ lastBlock' = c.n
    /\ stateFile' = IF c.n + 1 <= c.toProcess THEN saveLastBlock(c.n + 1)
                    ELSE saveLastBlock(c.n)
    /\ completed' = completed \cup {c.n}
    /\ lastScan' = [h |-> c.n, block |-> kind, priceUsd |-> c.priceUsd,
                    alerted |-> c.alerted, selfSeen |-> c.selfSeen]
    /\ cycles' = IF c.n + 1 <= c.toProcess
                 THEN Put(o, [c EXCEPT !.pc = "block", !.n = c.n + 1, !.i = 0,
                                       !.priceUsd = NullPrice, !.alerted = {},
                                       !.selfSeen = {}])
                 ELSE Drop(o)

\* lines 329-332: processBlock(n) has returned to poll's loop; a write that
\* raises ends the cycle (lines 338-340)
ProcessBlockReturns(o, c, kind) ==
    /\ lastBlock' = c.n
    /\ stateFile' = Saved(c.n, stateFile, faults)
    /\ completed' = completed \cup {c.n}
    /\ lastScan' = [h |-> c.n, block |-> kind, priceUsd |-> c.priceUsd,
                    alerted |-> c.alerted, selfSeen |-> c.selfSeen]
    /\ cycles' = IF "disk" \notin faults /\ c.n + 1 <= c.toProcess
                 THEN Put(o, [c EXCEPT !.pc = "block", !.n = c.n + 1, !.i = 0,
                                       !.priceUsd = NullPrice, !.alerted = {},
                                       !.selfSeen = {}])
                 ELSE Drop(o)

\* lines 271-277: the loop runs from index `from` to the next transaction at or
\* over the threshold, where it awaits isSelfTransfer, or to the end of the block
ScanLoop(o, c, from) ==
    LET txs == Block(c.n).transactions
        threshold == whaleThresholdShannons(c.priceUsd)
        cand == {j \in from..(Len(txs) - 1) :
                    ~BelowThreshold(Total(txs[j + 1]), threshold)}
    IN  IF cand # {}
        THEN /\ cycles' = Put(o, [c EXCEPT !.pc = "filter", !.i = Min(cand)])
             /\ UNCHANGED <<lastBlock, stateFile, completed>> /\ lastScan' = NoScan
        ELSE ProcessBlockReturns(o, c, "ok")

\* lines 259-271 once fetchCkbPrice has returned: a result without a
\* transactions array raises at txs.length
AfterPrice(o, c) ==
    IF c.blk = "bad"
    THEN /\ cycles' = Drop(o)
         /\ UNCHANGED <<lastBlock, stateFile, completed>> /\ lastScan' = NoScan
    ELSE ScanLoop(o, c, 1)

\* ------------------------------------------------------------------------
\* Actions
\* ------------------------------------------------------------------------
\* line 362: the interval timer calls poll(), whatever is still in flight
Poll ==
    /\ polls < MaxPolls
    /\ polls' = polls + 1
    /\ cycles' = cycles (+) SetToBag({NewCycle})
    /\ UNCHANGED <<lastBlock, stateFile, ckbPriceUsd, priceFetchedAt, clock, sent,
                   completed, loaded, initTip, faults, undelivered, pureVars>>
    /\ lastAlert' = NoAlert
    /\ lastScan' = NoScan

\* line 313 rejects (transport, JSON or RPC error): lines 338-340
TipFails(c) ==
    /\ c.pc = "tip"
    /\ "rpc" \in faults
    /\ cycles' = Drop(c)
    /\ UNCHANGED <<lastBlock, stateFile, ckbPriceUsd, priceFetchedAt, clock, sent, completed, loaded, initTip, polls, faults, undelivered, pureVars>>
    /\ lastAlert' = NoAlert
    /\ lastScan' = NoScan

\* a slip: the first run starts one height below the tip
FirstRunPointerBelowTip(tip) == JsAdd(tip, -1)

\* line 318: the pointer the first run starts from
FirstRunPointer(tip) == tip

\* a slip: the batch starts two heights above the pointer
BatchStartSkips(pointer) == JsAdd(pointer, 2)

\* line 328: the first height of this cycle's batch
BatchStart(pointer) == JsAdd(pointer, 1)

\* a slip: the batch ends at the pointer
BatchEndAtPointer(tip, pointer) == JsMin(tip, pointer)

\* a slip: the batch runs to the tip
BatchEndAtTip(tip, pointer) == tip

\* line 326: the last height of this cycle's batch
BatchEnd(tip, pointer) == JsMin(tip, JsAdd(pointer, MAX_BATCH))

\* lines 313-329: the tip arrives as "0x" + tipHex
TipReturns(c, tipHex) ==
    /\ c.pc = "tip"
    /\ LET tip == ParseInt16(tipHex)
           toProcess == BatchEnd(tip, lastBlock)
           n == BatchStart(lastBlock)
       IN  IF lastBlock = Null
           THEN /\ lastBlock' = FirstRunPointer(tip)
                /\ stateFile' = Saved(FirstRunPointer(tip), stateFile, faults)
                /\ initTip' = tip
                /\ cycles' = Drop(c)
           ELSE /\ UNCHANGED <<lastBlock, stateFile, initTip>>
                /\ cycles' = IF JsLe(tip, lastBlock) \/ ~JsLe(n, toProcess)
                             THEN Drop(c)
                             ELSE Put(c, [c EXCEPT !.pc = "block", !.first = lastBlock,
                                                   !.tip = tip, !.toProcess = toProcess,
                                                   !.n = n])
    /\ UNCHANGED <<ckbPriceUsd, priceFetchedAt, clock, sent, completed, loaded, polls, faults, undelivered, pureVars>>
    /\ lastAlert' = NoAlert
    /\ lastScan' = NoScan

\* lines 253-255 reject: the batch is abandoned (lines 338-340)
BlockFails(c) ==
    /\ c.pc = "block"
    /\ "rpc" \in faults
    /\ cycles' = Drop(c)
    /\ UNCHANGED <<lastBlock, stateFile, ckbPriceUsd, priceFetchedAt, clock, sent, completed, loaded, initTip, polls, faults, undelivered, pureVars>>
    /\ lastAlert' = NoAlert
    /\ lastScan' = NoScan

\* a slip: a sample aged exactly one TTL still counts as fresh
CacheFreshAtTtl(rate, age) == rate # NullPrice /\ age <= PRICE_TTL_MS

\* line 52: the cached rate is returned without asking the feed
CacheFresh(rate, age) == rate # NullPrice /\ age < PRICE_TTL_MS

\* lines 253-263: get_block_by_number answers null, a block, or a result with no
\* transactions array; then fetchCkbPrice reads Date.now(), which has moved on by
\* dt clock steps since it was last read, and answers from a fresh cache or asks
\* the feed
BlockReturns(c, kind, dt) ==
    /\ c.pc = "block"
    /\ kind = "bad" => "rpc" \in faults
    /\ clock + dt * ClockStep <= StartTime + MaxClockSteps * ClockStep
    /\ IF kind = "null"
       THEN /\ dt = 0
            /\ ProcessBlockReturns(c, c, "null")
            /\ UNCHANGED clock
       ELSE LET now == clock + dt * ClockStep
            IN  /\ clock' = now
                /\ IF CacheFresh(ckbPriceUsd, now - priceFetchedAt)
                   THEN AfterPrice(c, [c EXCEPT !.priceUsd = ckbPriceUsd, !.blk = kind])
                   ELSE /\ cycles' = Put(c, [c EXCEPT !.pc = "price", !.now = now,
                                                      !.blk = kind])
                        /\ UNCHANGED <<lastBlock, stateFile, completed>>
                        /\ lastScan' = NoScan
    /\ UNCHANGED <<ckbPriceUsd, priceFetchedAt, sent, loaded, initTip, polls, faults, undelivered, pureVars>>
    /\ lastAlert' = NoAlert

\* what the price feed may answer
FeedOutcomes ==
    {[kind |-> "err"], [kind |-> "malformed"], [kind |-> "usd", usd |-> <<0, 1>>],
     [kind |-> "usd", usd |-> <<3, 100>>]}

\* a slip: a rate of zero is taken for a price
ValidPriceOrZero(out) == out.kind = "usd" /\ out.usd[1] >= 0

\* line 60
ValidPrice(out) == out.kind = "usd" /\ out.usd[1] > 0

\* lines 55-68, then 263-271
PriceReturns(c, out) ==
    /\ c.pc = "price"
    /\ ckbPriceUsd' = IF ValidPrice(out) THEN out.usd ELSE ckbPriceUsd
    /\ priceFetchedAt' = IF ValidPrice(out) THEN c.now ELSE priceFetchedAt
    /\ AfterPrice(c, [c EXCEPT !.priceUsd = ckbPriceUsd', !.now = 0])
    /\ UNCHANGED <<clock, sent, loaded, initTip, polls, faults, undelivered, pureVars>>
    /\ lastAlert' = NoAlert

\* lines 280-298: isSelfTransfer has answered for transaction i
FilterReturns(c, res) ==
    /\ c.pc = "filter"
    /\ IF isSelfTransfer(Block(c.n).transactions[c.i + 1], res)
       THEN ScanLoop(c, [c EXCEPT !.selfSeen = @ \cup {c.i}], c.i + 1)
       ELSE /\ cycles' = Put(c, [c EXCEPT !.pc = "send", !.alerted = @ \cup {c.i}])
            /\ UNCHANGED <<lastBlock, stateFile, completed>> /\ lastScan' = NoScan
    /\ UNCHANGED <<ckbPriceUsd, priceFetchedAt, clock, sent, loaded, initTip, polls, faults, undelivered, pureVars>>
    /\ lastAlert' = NoAlert

\* lines 297-305: sendTelegram has resolved or rejected; the 500 ms delay starts
SendReturns(c, ok) ==
    /\ c.pc = "send"
    /\ cycles' = Put(c, [c EXCEPT !.pc = "delay"])
    /\ sent' = IF ok THEN sent \cup {<<c.n, c.i>>} ELSE sent
    /\ undelivered' = IF ok \/ undelivered = Unrecorded THEN undelivered
                       ELSE undelivered \cup {<<c.n, c.i>>}
    /\ lastAlert' = IF ok THEN <<c.n, c.i>> ELSE NoAlert
    /\ lastScan' = NoScan
    /\ UNCHANGED <<lastBlock, stateFile, ckbPriceUsd, priceFetchedAt, clock, completed, loaded, initTip, polls, faults, pureVars>>

\* lines 305-306, 271: the delay is over and the loop goes on
DelayDone(c) ==
    /\ c.pc = "delay"
    /\ ScanLoop(c, c, c.i + 1)
    /\ UNCHANGED <<ckbPriceUsd, priceFetchedAt, clock, sent, loaded, initTip, polls, faults, undelivered, pureVars>>
    /\ lastAlert' = NoAlert

\* the heights the node reports as its tip in the near-tip runs
TipHeights == {1, 2, 3}

\* what get_tip_block_number may answer: a height, or something that is no hex number
TipHexes == {ToString16(h) : h \in TipHeights} \cup {<<>>}

BlockKinds == {"ok", "null", "bad"}

\* the steps of the cycles in flight
Respond(tips) ==
    \/ \E c \in InFlight : TipFails(c)
    \/ \E c \in InFlight : \E tipHex \in tips : TipReturns(c, tipHex)
    \/ \E c \in InFlight : BlockFails(c)
    \/ \E c \in InFlight : \E kind \in BlockKinds : \E dt \in 0..MaxClockSteps :
            BlockReturns(c, kind, dt)
    \/ \E c \in InFlight : \E out \in FeedOutcomes : PriceReturns(c, out)
    \/ \E c \in InFlight :
         \E res \in [1..Len(Block(c.n).transactions[c.i + 1].inputs) -> LookupOutcomes] :
            FilterReturns(c, res)
    \/ \E c \in InFlight : \E ok \in BOOLEAN : SendReturns(c, ok)
    \/ \E c \in InFlight : DelayDone(c)

Next == Poll \/ Respond(TipHexes)

\* The bot near the tip of the chain: the timer fires whether or not the cycle
\* before has finished.
Spec == Init /\ [][Next]_vars

\* The same runs, with the record of the failed sends kept.
InitSends == InitProgram /\ undelivered = {} /\ arg = NoCall /\ ret = NoCall

SpecSends == InitSends /\ [][Next]_vars

\* The same runs on a disk that may fill up: from then on writeFileSync raises.
DiskFills ==
    /\ "disk" \notin faults
    /\ faults' = faults \cup {"disk"}
    /\ lastAlert' = NoAlert
    /\ lastScan' = NoScan
    /\ UNCHANGED <<lastBlock, stateFile, ckbPriceUsd, priceFetchedAt, clock, polls,
                   cycles, sent, completed, loaded, initTip, undelivered, pureVars>>

NextDisk == Next \/ DiskFills

SpecDisk == Init /\ [][NextDisk]_vars

\* ------------------------------------------------------------------------
\* The bot left running: the state file holds height 1, the tip stays at
\* LiveTip, the timer goes on firing (with at most MaxInFlight cycles in
\* flight), and the node and the disk fail until they are repaired, for good.
\* Every tick comes and every await resolves in the end: the requests time out
\* after 10 s.
\* ------------------------------------------------------------------------
LiveTip == 3

LiveTipHexes == {ToString16(LiveTip)}

\* line 362: one more tick of the interval timer
Tick ==
    /\ BagCardinality(cycles) < MaxInFlight
    /\ cycles' = cycles (+) SetToBag({NewCycle})
    /\ lastAlert' = NoAlert
    /\ lastScan' = NoScan
    /\ UNCHANGED <<lastBlock, stateFile, ckbPriceUsd, priceFetchedAt, clock, polls,
                   sent, completed, loaded, initTip, faults, undelivered, pureVars>>

\* the node answers and the disk takes writes from now on
Heals ==
    /\ faults # {}
    /\ faults' = {}
    /\ lastAlert' = NoAlert
    /\ lastScan' = NoScan
    /\ UNCHANGED <<lastBlock, stateFile, ckbPriceUsd, priceFetchedAt, clock, polls,
                   cycles, sent, completed, loaded, initTip, undelivered, pureVars>>

DiskFillsUnrepaired == "rpc" \in faults /\ DiskFills

InitLive == Init /\ stateFile = 1

NextLive == Tick \/ Respond(LiveTipHexes) \/ DiskFillsUnrepaired \/ Heals

SpecLive ==
    InitLive /\ [][NextLive]_vars /\ WF_vars(Tick) /\ WF_vars(Respond(LiveTipHexes))

\* ------------------------------------------------------------------------
\* Catching up after an outage: the state file holds height 1, the tip is more
\* than MAX_BATCH heights ahead, and every cycle ends before the timer fires
\* again.
\* ------------------------------------------------------------------------
FarTipHexes == {ToString16(1 + MAX_BATCH + FarAhead)}

PollIdle == cycles = EmptyBag /\ Poll

InitCatchUp == Init /\ stateFile = 1

NextCatchUp == PollIdle \/ Respond(FarTipHexes)

SpecCatchUp == InitCatchUp /\ [][NextCatchUp]_vars

\* ------------------------------------------------------------------------
\* The classifier on its own: every transaction of up to MaxIO inputs and
\* MaxIO outputs over three locks, with every outcome of the lookups.
\* ------------------------------------------------------------------------
Locks == {"A", "B", "C"}

SeqsUpTo(S, k) == UNION {[1..m -> S] : m \in 0..k}

ClassifierArgs ==
    {[inputs |-> ins, outputs |-> outs, res |-> res] :
        ins \in SeqsUpTo(Locks, MaxIO), outs \in SeqsUpTo(Locks, MaxIO),
        res \in SeqsUpTo(LookupOutcomes, MaxIO)}

AsTx(a) ==
    [inputs |-> a.inputs,
     outputs |-> [k \in 1..Len(a.outputs) |-> Out(1, 0, a.outputs[k])]]

InitClassifier ==
    /\ InitMain
    /\ arg \in {a \in ClassifierArgs : Len(a.res) = Len(a.inputs)}
    /\ ret = NoCall

Classify ==
    /\ ret = NoCall
    /\ ret' = [op |-> "isSelfTransfer", value |-> isSelfTransfer(AsTx(arg), arg.res)]
    /\ UNCHANGED <<lastBlock, stateFile, ckbPriceUsd, priceFetchedAt, clock, polls,
                   cycles, sent, lastAlert, completed, loaded, initTip, lastScan,
                   undelivered, faults, arg>>

NextClassifier == Classify

SpecClassifier == InitClassifier /\ [][NextClassifier]_vars

\* ------------------------------------------------------------------------
\* The threshold conversion on its own: two rates num/den with num up to
\* MaxRateNum over the denominators 1, 100 and 10000.
\* ------------------------------------------------------------------------
RateDens == {1, 100, 10000}

Rates == {<<num, den>> : num \in 1..MaxRateNum, den \in RateDens}

\* r1 < r2 for positive rationals
RateLt(r1, r2) == r1[1] * r2[2] < r2[1] * r1[2]

InitThreshold ==
    /\ InitMain
    /\ arg \in {[r1 |-> r1, r2 |-> r2] : r1 \in Rates, r2 \in Rates}
    /\ ret = NoCall

Convert ==
    /\ ret = NoCall
    /\ ret' = [op |-> "whaleThresholdShannons",
               t1 |-> whaleThresholdShannons(arg.r1),
               t2 |-> whaleThresholdShannons(arg.r2)]
    /\ UNCHANGED <<lastBlock, stateFile, ckbPriceUsd, priceFetchedAt, clock, polls,
                   cycles, sent, lastAlert, completed, loaded, initTip, lastScan,
                   undelivered, faults, arg>>

NextThreshold == Convert

SpecThreshold == InitThreshold /\ [][NextThreshold]_vars

\* ------------------------------------------------------------------------
\* Properties
\* ------------------------------------------------------------------------
\* the cycles that are inside processBlock
ScanPcs == {"block", "price", "filter", "send", "delay"}

Scanning == {c \in InFlight : c.pc \in ScanPcs}

\* b does not fall below a: a pointer that was null may take any value
NotBelow(a, b) == a = b \/ a = Null \/ (IsNum(a) /\ IsNum(b) /\ a <= b)

\* C1: the in-memory pointer and the persisted pointer never decrease, whatever
\* the interleaving of the poll() invocations.
C1_PointerNeverDecreases ==
    [][NotBelow(lastBlock, lastBlock') /\ NotBelow(stateFile, stateFile')]_vars

\* C2: at most one invocation of poll() is in flight at any moment.
C2_CyclesNeverOverlap == BagCardinality(cycles) <= 1

\* C3: a transaction (height, index) is delivered to the channel at most once in
\* a process run.
C3_AlertsDeduplicated ==
    [][lastAlert' # NoAlert => lastAlert' \notin sent]_vars

\* every transaction of the scan at or over its threshold was classified, and the
\* send of every one not classified a self-transfer was attempted
SendsAttempted(scan) ==
    scan.block = "ok" =>
        \A idx \in 1..(Len(Block(scan.h).transactions) - 1) :
            ~BigLt(Total(Block(scan.h).transactions[idx + 1]),
                   whaleThresholdShannons(scan.priceUsd))
                => idx \in scan.alerted \cup scan.selfSeen

\* C4: every write of the persisted pointer, other than the first run's, stores
\* the height of a processBlock call that has just returned, with every alert of
\* that height attempted; no step writes it for a scan in progress or failed.
C4_PersistedAfterScan ==
    /\ [](IsNum(stateFile) /\ stateFile \notin {loaded, initTip}
            => stateFile \in completed)
    /\ [][stateFile' # stateFile =>
            \/ lastBlock = Null /\ stateFile' = initTip'
            \/ /\ lastScan' # NoScan
               /\ lastScan'.h = stateFile'
               /\ stateFile' \in completed'
               /\ SendsAttempted(lastScan')]_vars

C4_Witness ==
    /\ lastScan # NoScan
    /\ lastScan.alerted # {}
    /\ stateFile = lastScan.h
    /\ stateFile \in completed

\* C5: on a first run (no pointer loaded) nothing is scanned until a tip T has
\* been stored, the storing cycle scans nothing, the pointer and the file then
\* hold T, and every height scanned afterwards is above T.
C5_FirstRunNoReplay ==
    /\ [](loaded = Null =>
            /\ \A c \in Scanning : IsNum(initTip) /\ c.n > initTip
            /\ \A h \in completed : IsNum(initTip) /\ h > initTip)
    /\ [][lastBlock = Null /\ lastBlock' # Null =>
            /\ lastBlock' = initTip'
            /\ stateFile' = initTip'
            /\ BagToSet(cycles') \subseteq InFlight
            /\ BagCardinality(cycles') = BagCardinality(cycles) - 1
            /\ completed' = {}]_vars

C5_Witness ==
    /\ loaded = Null
    /\ IsNum(initTip)
    /\ \E c \in Scanning : c.n = initTip + 1

\* C6: a cycle scans only heights pointer+1 .. min(tip, pointer+50), for the
\* pointer it read when the batch began: at most MAX_BATCH heights.
C6_BatchBounded ==
    \A c \in Scanning :
        /\ c.first + 1 <= c.n
        /\ c.n <= c.first + MAX_BATCH
        /\ c.n <= c.tip
        /\ c.toProcess = IF c.tip <= c.first + MAX_BATCH THEN c.tip
                         ELSE c.first + MAX_BATCH

C6_Witness ==
    \E c \in Scanning : c.n = c.first + MAX_BATCH /\ c.tip > c.n

\* the step in which the scan of c's height fails: the fetch rejects or the scan
\* raises, and the cycle ends without processBlock having returned
ScanFails(c) ==
    /\ c.pc \in {"block", "price"}
    /\ cycles' = cycles (-) SetToBag({c})
    /\ lastScan' = NoScan

\* C7: when the scan of height n fails the cycle ends, and the pointer is left at
\* n-1, so that the next cycle starts at n again.
C7_FailureLeavesPointer ==
    [][\A c \in InFlight :
          ScanFails(c) =>
              /\ lastBlock' = c.n - 1
              /\ stateFile' = c.n - 1]_vars

\* C8: a cycle whose tip query fails or answers no hex number changes neither
\* pointer and scans nothing.
C8_BadTipIsNoOp ==
    [][\A c \in InFlight :
          (TipFails(c) \/ TipReturns(c, <<>>)) =>
              /\ lastBlock' = lastBlock
              /\ stateFile' = stateFile
              /\ cycles' = cycles (-) SetToBag({c})]_vars

\* the transactions of a scan, up to index upto, were alerted on exactly when
\* their index is at least 1, their total is at or over the threshold of the
\* block, and the classifier did not call them self-transfers
AlertedExactly(h, priceUsd, alerted, selfSeen, upto) ==
    \A idx \in 0..upto :
        idx \in alerted <=>
            /\ idx >= 1
            /\ ~BigLt(Total(Block(h).transactions[idx + 1]),
                      whaleThresholdShannons(priceUsd))
            /\ idx \notin selfSeen

\* C9: in every scanned block a transaction is alerted on if and only if its
\* index is >= 1, its total is >= the block's threshold and the classifier says
\* it is no self-transfer: for the whole block once processBlock returns, and
\* for the transactions behind the loop index while it runs.
C9_AlertIff ==
    /\ (lastScan # NoScan /\ lastScan.block = "ok") =>
            AlertedExactly(lastScan.h, lastScan.priceUsd, lastScan.alerted,
                           lastScan.selfSeen, Len(Block(lastScan.h).transactions) - 1)
    /\ \A c \in InFlight :
          /\ c.pc = "filter" =>
                AlertedExactly(c.n, c.priceUsd, c.alerted, c.selfSeen, c.i - 1)
          /\ c.pc \in {"send", "delay"} =>
                AlertedExactly(c.n, c.priceUsd, c.alerted, c.selfSeen, c.i)

C9_Witness ==
    /\ lastScan # NoScan
    /\ lastScan.block = "ok"
    /\ lastScan.selfSeen # {}
    /\ lastScan.alerted # {}

\* the authorities the lookups resolved: unknown, taken as empty, when a lookup
\* raised
ResolvedAuthorities ==
    IF \E j \in 1..Len(arg.inputs) : arg.res[j] = "err"
    THEN {}
    ELSE {l \in Locks : \E j \in 1..Len(arg.inputs) :
                            arg.res[j] = "ok" /\ arg.inputs[j] = l}

\* C10: isSelfTransfer answers true if and only if the resolved input-authority
\* set is non-empty and holds the lock of every output.
C10_ClassifierIff ==
    ret # NoCall =>
        (ret.value <=>
            /\ ResolvedAuthorities # {}
            /\ \A k \in 1..Len(arg.outputs) : arg.outputs[k] \in ResolvedAuthorities)

C10_Witness ==
    /\ ret # NoCall
    /\ ret.value
    /\ Len(arg.inputs) = 2
    /\ \E j \in 1..2 : arg.res[j] = "none"

\* the authorities of the inputs whose lookup resolved, whatever became of the
\* lookups of the other inputs
AuthoritiesPerInput ==
    {l \in Locks : \E j \in 1..Len(arg.inputs) :
                        arg.res[j] = "ok" /\ arg.inputs[j] = l}

\* C11: an input whose lookup fails or finds nothing is skipped on its own: the
\* answer is true if and only if the authorities of the resolved inputs are a
\* non-empty set that holds the lock of every output.
C11_DegradesPerInput ==
    ret # NoCall =>
        (ret.value <=>
            /\ AuthoritiesPerInput # {}
            /\ \A k \in 1..Len(arg.outputs) : arg.outputs[k] \in AuthoritiesPerInput)

\* the activation records the step brings about: the cycle that took the step,
\* as it goes on
NewRecords ==
    {d \in BagToSet(cycles') : CopiesIn(d, cycles') > CopiesIn(d, cycles)}

\* the step leaves every scan that goes on or returns with the rate p
ScansAtRate(p) ==
    /\ \A d \in NewRecords : d.pc # "block" => d.priceUsd = p
    /\ lastScan' # NoScan => lastScan'.priceUsd = p

\* C12: when the refresh attempted for a block finds the feed unreachable, the
\* block is scanned with the fallback threshold of 10,000,000 CKB, whether or
\* not an earlier refresh had succeeded.
C12_FeedDownUsesFallback ==
    [][\A c \in InFlight :
          PriceReturns(c, [kind |-> "err"]) =>
              \E p \in {NullPrice, ckbPriceUsd} :
                  /\ ScansAtRate(p)
                  /\ whaleThresholdShannons(p) = <<FALLBACK_CKB, 0>>]_vars

\* the step is one of cycle c
Steps(c) == CopiesIn(c, cycles') < CopiesIn(c, cycles)

\* the step in which cycle c, holding a block, calls fetchCkbPrice
CallsFetchCkbPrice(c) ==
    /\ c.pc = "block"
    /\ Steps(c)
    /\ \E kind \in BlockKinds \ {"null"} : \E dt \in 0..MaxClockSteps :
          BlockReturns(c, kind, dt)

\* the step in which the feed answers cycle c
FeedAnswers(c) ==
    /\ c.pc = "price"
    /\ Steps(c)
    /\ \E out \in FeedOutcomes : PriceReturns(c, out)

\* C13: fetchCkbPrice called with a cached sample younger than the TTL returns
\* the cached rate and does not ask the feed; called with no sample or one aged
\* the TTL or more it asks the feed, once, before it returns.
C13_CacheFreshness ==
    /\ [][\A c \in InFlight :
             CallsFetchCkbPrice(c) =>
                 IF ckbPriceUsd # NullPrice /\ clock' - priceFetchedAt < PRICE_TTL_MS
                 THEN /\ \A d \in NewRecords : d.pc # "price"
                      /\ ScansAtRate(ckbPriceUsd)
                      /\ UNCHANGED <<ckbPriceUsd, priceFetchedAt>>
                 ELSE /\ \E d \in NewRecords : d.pc = "price" /\ d.now = clock'
                      /\ lastScan' = NoScan]_vars
    /\ [][\A c \in InFlight :
             FeedAnswers(c) => \A d \in NewRecords : d.pc # "price"]_vars

C13_Witness ==
    \E c \in InFlight :
        /\ c.pc = "price"
        /\ ckbPriceUsd # NullPrice
        /\ c.now - priceFetchedAt >= PRICE_TTL_MS

\* the answers that are no rate: the feed unreachable, a malformed response, a
\* rate that is not positive
FailedRefreshes ==
    {out \in FeedOutcomes : out.kind \in {"err", "malformed"} \/ out.usd[1] <= 0}

\* C14: a failed refresh does not raise into processBlock and leaves the cached
\* rate and its timestamp as they were; the scan goes on with the last known
\* rate, or with null when no refresh has succeeded; the cached rate is always
\* null or strictly positive.
C14_FailedRefreshKeepsCache ==
    /\ [](ckbPriceUsd = NullPrice \/ (ckbPriceUsd[1] > 0 /\ ckbPriceUsd[2] > 0))
    /\ [][\A c \in InFlight :
             c.pc = "price" /\ Steps(c) =>
                 \A out \in FailedRefreshes :
                     PriceReturns(c, out) =>
                         /\ UNCHANGED <<ckbPriceUsd, priceFetchedAt>>
                         /\ ScansAtRate(ckbPriceUsd)
                         /\ c.blk = "ok" =>
                                \/ lastScan' # NoScan /\ lastScan'.h = c.n
                                \/ \E d \in NewRecords :
                                       d.pc = "filter" /\ d.n = c.n]_vars

C14_Witness ==
    /\ ckbPriceUsd = NullPrice
    /\ \E c \in InFlight : c.pc = "filter" /\ c.priceUsd = NullPrice

\* C15, as the spec states it: of two available rates the lower gives the
\* lower-or-equal threshold.
C15_LowerRateLowerThreshold ==
    ret # NoCall /\ RateLt(arg.r1, arg.r2) => ~BigLt(ret.t2, ret.t1)

\* C15, as the code has it: of two available rates the lower gives the
\* higher-or-equal threshold.
C15_LowerRateHigherThreshold ==
    ret # NoCall /\ RateLt(arg.r1, arg.r2) => ~BigLt(ret.t1, ret.t2)

C15_Witness ==
    /\ ret # NoCall
    /\ RateLt(arg.r1, arg.r2)
    /\ BigLt(ret.t2, ret.t1)
    /\ ret.t2 = <<6666667, 0>>

\* the step in which cycle c calls saveLastBlock: on a first run, or when the
\* scan of its height has returned
CallsSaveLastBlock(c) ==
    /\ Steps(c)
    /\ \/ c.pc = "tip" /\ lastBlock = Null /\ lastBlock' # Null
       \/ c.pc \in ScanPcs /\ lastScan' # NoScan /\ lastScan'.h = c.n

\* C16: a write of the pointer that fails ends the cycle, with no further height
\* scanned in it, and whenever a cycle ends the in-memory pointer is the value
\* last written to the state file.
C16_FailedSaveIsFatal ==
    /\ [][\A c \in InFlight :
             CallsSaveLastBlock(c) /\ "disk" \in faults =>
                 /\ NewRecords = {}
                 /\ BagCardinality(cycles') = BagCardinality(cycles) - 1]_vars
    /\ [][BagCardinality(cycles') < BagCardinality(cycles) =>
             lastBlock' = stateFile']_vars

\* alert a comes no later than alert b in the order of the chain
NotAfter(a, b) == a[1] < b[1] \/ (a[1] = b[1] /\ a[2] <= b[2])

\* C17: heights are scanned one at a time and in increasing order over the whole
\* run, so every alert delivered belongs to a height at or above that of every
\* alert delivered before it, and within a height to an index at or above.
C17_AlertsOrdered ==
    /\ [][\A d \in NewRecords :
             d.pc = "block" =>
                 /\ \A h \in completed : h < d.n
                 /\ \A e \in BagToSet(cycles') : e.pc \in ScanPcs => e = d
                 /\ CopiesIn(d, cycles') = 1]_vars
    /\ [][lastAlert' # NoAlert => \A a \in sent : NotAfter(a, lastAlert')]_vars

\* C18: a send that fails ends neither the scan nor the cycle: the scan goes on
\* to the delay and the remaining transactions, processBlock returns, the
\* pointer is advanced and persisted to that height, and no send of that alert
\* is started again.
C18_FailedSendNotFatal ==
    /\ [][\A c \in InFlight :
             SendReturns(c, FALSE) =>
                 /\ NewRecords = {[c EXCEPT !.pc = "delay"]}
                 /\ BagCardinality(cycles') = BagCardinality(cycles)
                 /\ UNCHANGED <<lastBlock, stateFile>>]_vars
    /\ [][(lastScan' # NoScan /\ \E i \in lastScan'.alerted :
                                    <<lastScan'.h, i>> \in undelivered) =>
             /\ SendsAttempted(lastScan')
             /\ lastBlock' = lastScan'.h
             /\ stateFile' = lastScan'.h]_vars
    /\ [][\A d \in NewRecords :
             d.pc = "send" => <<d.n, d.i>> \notin undelivered]_vars

\* the pointer the run started from: the one loaded at startup, or the tip the
\* first run stored
StartPointer == IF loaded # Null THEN loaded ELSE initTip

\* C19: every height above the pointer the run started from, up to the pointer
\* in memory and up to the pointer in the file, has had a processBlock call
\* return, whatever the interleaving of the cycles.
C19_NoHeightSkipped ==
    \A p \in {lastBlock, stateFile} :
        IsNum(p) /\ IsNum(StartPointer) =>
            \A h \in (StartPointer + 1)..p : h \in completed

C19_Witness ==
    /\ IsNum(StartPointer)
    /\ lastBlock = StartPointer + 2
    /\ stateFile = lastBlock
    /\ \E c \in Scanning : c.n < lastBlock

\* C20: with the tip fixed at LiveTip above the pointer, once the tip queries,
\* the block fetches and the pointer writes all succeed the pointer comes to
\* equal the tip and stays there.
C20_CatchUpProgress == (faults = {}) ~> [](lastBlock = LiveTip)

C20_Witness ==
    /\ faults = {}
    /\ lastBlock = LiveTip
    /\ stateFile = LiveTip
    /\ completed = (loaded + 1)..LiveTip
    /\ cycles = EmptyBag

====
